---- MODULE Spec2Model ----
(***************************************************************************)
(* Model of rbxcloud's OrderedDataStore protocol layer                     *)
(* (src/rbx/ordered_datastore.rs): the six operations list_entries,        *)
(* create_entry, get_entry, delete_entry, update_entry, increment_entry,   *)
(* the URL builder and the two response handlers.                          *)
(*                                                                         *)
(* One step of the model is one invocation of one operation: the caller    *)
(* picks a parameter record, the operation builds and sends its request,   *)
(* the network answers (or fails), and the handler turns the answer into   *)
(* the value returned to the caller.                                       *)
(***************************************************************************)
EXTENDS Integers, Sequences, FiniteSets, TLC

VARIABLES
    op,          \* the operation invoked last ("none" before the first call)
    params,      \* its parameter record
    requests,    \* the HTTP requests that invocation issued, in order
    outcome,     \* what the network did with the (last) request
    result,      \* the Result<_, Error> returned to the caller
    body_read,   \* whether the handler read the response body
    calls,       \* number of invocations so far
    nsent,       \* number of HTTP requests issued so far
    cursor,      \* next_page_token of the most recent decoded listing page
    prev_cursor  \* value of cursor when the last invocation started

vars == <<op, params, requests, outcome, result, body_read, calls, nsent,
          cursor, prev_cursor>>

(***************************************************************************)
(* Bounds                                                                  *)
(***************************************************************************)
MaxCalls == 2

(***************************************************************************)
(* Option, Result and unit                                                 *)
(***************************************************************************)
None == [some |-> FALSE]
Some(x) == [some |-> TRUE, v |-> x]
Unit == [unit |-> TRUE]
Ok(x) == [ok |-> TRUE, value |-> x]
Err(e) == [ok |-> FALSE, error |-> e]

(***************************************************************************)
(* Caller inputs                                                           *)
(***************************************************************************)
ApiKeys == {"key-1"}
UniverseIds == {7, 4096}
Names == {"Scores", "Kills"}
Scopes == {None, Some("players")}
PageSizes == {None, Some(25)}
Tokens == {"dG9rMQ==", "c2Vjb25k/+"}
PageTokens == {None} \cup {Some(t) : t \in Tokens}
OrderBys == {None, Some("desc")}
Filters == {None, Some("entry <= 10")}
Ids == {"u1", "player_7"}
Values == {-2147483647, -5, 0, 42, 2147483647}
AllowMissing == {None, Some(TRUE), Some(FALSE)}

OrderedListEntriesParams ==
    [api_key : ApiKeys, universe_id : UniverseIds,
     ordered_datastore_name : Names, scope : Scopes,
     max_page_size : PageSizes, page_token : PageTokens,
     order_by : OrderBys, filter : Filters]

OrderedCreateEntryParams ==
    [api_key : ApiKeys, universe_id : UniverseIds,
     ordered_datastore_name : Names, scope : Scopes,
     id : Ids, value : Values]

OrderedUpdateEntryParams ==
    [api_key : ApiKeys, universe_id : UniverseIds,
     ordered_datastore_name : Names, scope : Scopes,
     id : Ids, value : Values, allow_missing : AllowMissing]

OrderedIncrementEntryParams ==
    [api_key : ApiKeys, universe_id : UniverseIds,
     ordered_datastore_name : Names, scope : Scopes,
     id : Ids, increment : Values]

OrderedEntryParams ==
    [api_key : ApiKeys, universe_id : UniverseIds,
     ordered_datastore_name : Names, scope : Scopes, id : Ids]

(***************************************************************************)
(* Integer and boolean rendering                                           *)
(***************************************************************************)
Digit == <<"0", "1", "2", "3", "4", "5", "6", "7", "8", "9">>

RECURSIVE u64_to_string(_)
u64_to_string(n) ==
    IF n < 10 THEN Digit[n + 1]
    ELSE u64_to_string(n \div 10) \o Digit[(n % 10) + 1]

i64_to_string(v) ==
    IF v < 0 THEN "-" \o u64_to_string(0 - v) ELSE u64_to_string(v)

bool_to_string(b) == IF b THEN "true" ELSE "false"

UniverseId_to_string(universe_id) == u64_to_string(universe_id)

PageSize_to_string(max_page_size) == u64_to_string(max_page_size)

(***************************************************************************)
(* Requests                                                                *)
(***************************************************************************)
\* build_url with the default scope lost: an absent scope is rendered empty
build_url_no_default(endpoint, universe_id, scope) ==
    LET s == IF scope.some THEN scope.v ELSE "" IN
    "https://apis.roblox.com/ordered-data-stores/v1/universes/"
        \o UniverseId_to_string(universe_id)
        \o "/orderedDataStores/scopes/" \o s \o endpoint

build_url(endpoint, universe_id, scope) ==
    LET s == IF scope.some THEN scope.v ELSE "global" IN
    IF endpoint = ""
    THEN "https://apis.roblox.com/ordered-data-stores/v1/universes/"
             \o UniverseId_to_string(universe_id)
             \o "/orderedDataStores/scopes/" \o s
    ELSE "https://apis.roblox.com/ordered-data-stores/v1/universes/"
             \o UniverseId_to_string(universe_id)
             \o "/orderedDataStores/scopes/" \o s \o endpoint

\* json!({ key: v }) rendered by serde_json::to_string
body_json(key, v) == "{\"" \o key \o "\":" \o i64_to_string(v) \o "}"

\* list_entries building its query with a placeholder for an absent filter
list_entries_query_placeholder(p) ==
    (IF p.max_page_size.some
        THEN << <<"max_page_size", PageSize_to_string(p.max_page_size.v)>> >>
        ELSE << >>)
    \o (IF p.page_token.some
        THEN << <<"page_token", p.page_token.v>> >> ELSE << >>)
    \o (IF p.order_by.some
        THEN << <<"order_by", p.order_by.v>> >> ELSE << >>)
    \o << <<"filter", IF p.filter.some THEN p.filter.v ELSE "">> >>

\* list_entries sending the page token under the wire name of the response
\* field instead of the query parameter's name
list_entries_query_camel(p) ==
    (IF p.max_page_size.some
        THEN << <<"max_page_size", PageSize_to_string(p.max_page_size.v)>> >>
        ELSE << >>)
    \o (IF p.page_token.some
        THEN << <<"pageToken", p.page_token.v>> >> ELSE << >>)
    \o (IF p.order_by.some
        THEN << <<"order_by", p.order_by.v>> >> ELSE << >>)
    \o (IF p.filter.some
        THEN << <<"filter", p.filter.v>> >> ELSE << >>)

list_entries_query(p) ==
    (IF p.max_page_size.some
        THEN << <<"max_page_size", PageSize_to_string(p.max_page_size.v)>> >>
        ELSE << >>)
    \o (IF p.page_token.some
        THEN << <<"page_token", p.page_token.v>> >> ELSE << >>)
    \o (IF p.order_by.some
        THEN << <<"order_by", p.order_by.v>> >> ELSE << >>)
    \o (IF p.filter.some
        THEN << <<"filter", p.filter.v>> >> ELSE << >>)

update_entry_query(p) ==
    IF p.allow_missing.some
    THEN << <<"allow_missing", bool_to_string(p.allow_missing.v)>> >>
    ELSE << >>

\* list_entries addressing the store by name
list_entries_request_named(p) ==
    [method  |-> "GET",
     url     |-> build_url("/" \o p.ordered_datastore_name \o "/entries",
                           p.universe_id, p.scope),
     headers |-> << <<"x-api-key", p.api_key>> >>,
     query   |-> list_entries_query(p),
     body    |-> None]

list_entries_request(p) ==
    [method  |-> "GET",
     url     |-> build_url("/entries", p.universe_id, p.scope),
     headers |-> << <<"x-api-key", p.api_key>> >>,
     query   |-> list_entries_query(p),
     body    |-> None]

create_entry_request(p) ==
    [method  |-> "POST",
     url     |-> build_url("/entries", p.universe_id, p.scope),
     headers |-> << <<"x-api-key", p.api_key>> >>,
     query   |-> << <<"id", p.id>> >>,
     body    |-> Some(body_json("value", p.value))]

get_entry_request(p) ==
    [method  |-> "GET",
     url     |-> build_url("/entries/" \o p.id, p.universe_id, p.scope),
     headers |-> << <<"x-api-key", p.api_key>> >>,
     query   |-> << >>,
     body    |-> None]

delete_entry_request(p) ==
    [method  |-> "DELETE",
     url     |-> build_url("/entries/" \o p.id, p.universe_id, p.scope),
     headers |-> << <<"x-api-key", p.api_key>> >>,
     query   |-> << >>,
     body    |-> None]

update_entry_request(p) ==
    [method  |-> "PATCH",
     url     |-> build_url("/entries/" \o p.id, p.universe_id, p.scope),
     headers |-> << <<"x-api-key", p.api_key>> >>,
     query   |-> update_entry_query(p),
     body    |-> Some(body_json("value", p.value))]

\* increment_entry sending the body of an update
increment_entry_request_value(p) ==
    [method  |-> "PATCH",
     url     |-> build_url("/entries/" \o p.id \o ":increment",
                           p.universe_id, p.scope),
     headers |-> << <<"x-api-key", p.api_key>> >>,
     query   |-> << >>,
     body    |-> Some(body_json("value", p.increment))]

increment_entry_request(p) ==
    [method  |-> "PATCH",
     url     |-> build_url("/entries/" \o p.id \o ":increment",
                           p.universe_id, p.scope),
     headers |-> << <<"x-api-key", p.api_key>> >>,
     query   |-> << >>,
     body    |-> Some(body_json("amount", p.increment))]

(***************************************************************************)
(* What the network can do with a request                                  *)
(*                                                                         *)
(* A JSON value is tagged by its type; a response body is lost in transit, *)
(* or text that is not JSON, or a JSON object.                             *)
(***************************************************************************)
JStr(x) == [t |-> "string", s |-> x]
JNum(x) == [t |-> "number", n |-> x]
JNull == [t |-> "null"]
JArr(x) == [t |-> "array", a |-> x]
JObj(x) == [t |-> "object", o |-> x]

BodyLost == [readable |-> FALSE]
Text(x) == [readable |-> TRUE, json |-> FALSE, text |-> x]
Json(x) == [readable |-> TRUE, json |-> TRUE, obj |-> x]

EntryObj ==
    [path |-> JStr("universes/7/orderedDataStores/Scores/scopes/global/entries/u1"),
     id |-> JStr("u1"), value |-> JNum(42)]

Bodies ==
    { BodyLost, Text(""), Text("<html>"),
      Json(EntryObj),
      Json([path |-> JStr("p"), id |-> JStr("u1"), value |-> JStr("42")]),
      Json([entries |-> JArr(<<JObj(EntryObj)>>)]),
      Json([entries |-> JArr(<< >>), nextPageToken |-> JNull]),
      Json([entries |-> JArr(<<JObj(EntryObj)>>),
            next_page_token |-> JStr("dG9rMQ==")]),
      Json([code |-> JStr("NOT_FOUND"), message |-> JStr("Entry not found.")]),
      Json([code |-> JStr("INVALID_ARGUMENT")]) }
    \cup { Json([entries |-> JArr(<<JObj(EntryObj)>>),
                 nextPageToken |-> JStr(t)]) : t \in Tokens }

Statuses == {200, 204, 404, 500}

Outcomes ==
    {[delivered |-> FALSE]}
    \cup [delivered : {TRUE}, status : Statuses, body : Bodies]

(***************************************************************************)
(* Decoding (serde derive: a missing or ill-typed required field fails,    *)
(* unknown fields are ignored, a missing or null Option field is None)     *)
(***************************************************************************)
Decoded(x) == [ok |-> TRUE, value |-> x]
Failed(kind) == [ok |-> FALSE, error |-> [kind |-> kind]]

HasField(o, f, type) == f \in DOMAIN o /\ o[f].t = type

Deserialize_OrderedEntry(o) ==
    IF /\ HasField(o, "path", "string")
       /\ HasField(o, "id", "string")
       /\ HasField(o, "value", "number")
    THEN Decoded([path |-> o.path.s, id |-> o.id.s, value |-> o.value.n])
    ELSE Failed("decode")

Deserialize_OrderedListEntriesResponse(o) ==
    IF /\ HasField(o, "entries", "array")
       /\ \A i \in DOMAIN o.entries.a :
              /\ o.entries.a[i].t = "object"
              /\ Deserialize_OrderedEntry(o.entries.a[i].o).ok
       /\ "nextPageToken" \in DOMAIN o
              => o.nextPageToken.t \in {"string", "null"}
    THEN Decoded(
            [entries |-> [i \in DOMAIN o.entries.a |->
                             Deserialize_OrderedEntry(o.entries.a[i].o).value],
             next_page_token |->
                 IF HasField(o, "nextPageToken", "string")
                 THEN Some(o.nextPageToken.s) ELSE None])
    ELSE Failed("decode")

Deserialize_DataStoreErrorResponse(o) ==
    IF HasField(o, "code", "string") /\ HasField(o, "message", "string")
    THEN Decoded([code |-> o.code.s, message |-> o.message.s])
    ELSE Failed("decode")

Deserialize(T, o) ==
    CASE T = "OrderedEntry" -> Deserialize_OrderedEntry(o)
      [] T = "OrderedListEntriesResponse" ->
             Deserialize_OrderedListEntriesResponse(o)
      [] T = "DataStoreErrorResponse" -> Deserialize_DataStoreErrorResponse(o)

\* Response::json::<T>(): read the whole body, then parse it as T
res_json(res, T) ==
    IF ~res.body.readable THEN Failed("body")
    ELSE IF ~res.body.json THEN Failed("decode")
    ELSE Deserialize(T, res.body.obj)

(***************************************************************************)
(* Errors                                                                  *)
(***************************************************************************)
DataStoreError(err_res) == [kind |-> "DataStoreError", envelope |-> err_res]

\* the conversion `?` applies to a reqwest::Error
Error_from_reqwest(e) ==
    IF e.kind = "decode" THEN [kind |-> "Undecodable"]
    ELSE [kind |-> "Transport"]

(***************************************************************************)
(* Response handlers                                                       *)
(***************************************************************************)
is_success(status) == status >= 200 /\ status <= 299

\* handle_res substituting a default envelope when the error body does not
\* decode (unwrap_or_default in place of `?`)
handle_res_default_envelope(res, T) ==
    IF is_success(res.status)
    THEN LET body == res_json(res, T) IN
         [read |-> TRUE,
          result |-> IF body.ok THEN Ok(body.value)
                     ELSE Err(Error_from_reqwest(body.error))]
    ELSE LET err_res == res_json(res, "DataStoreErrorResponse") IN
         [read |-> TRUE,
          result |-> IF err_res.ok THEN Err(DataStoreError(err_res.value))
                     ELSE Err(DataStoreError([code |-> "", message |-> ""]))]

\* handle_res turning a non-2xx status into the client's status error
\* (error_for_status()? in place of decoding the envelope)
handle_res_error_for_status(res, T) ==
    IF is_success(res.status)
    THEN LET body == res_json(res, T) IN
         [read |-> TRUE,
          result |-> IF body.ok THEN Ok(body.value)
                     ELSE Err(Error_from_reqwest(body.error))]
    ELSE [read |-> FALSE,
          result |-> Err(Error_from_reqwest([kind |-> "status"]))]

handle_res(res, T) ==
    IF is_success(res.status)
    THEN LET body == res_json(res, T) IN
         [read |-> TRUE,
          result |-> IF body.ok THEN Ok(body.value)
                     ELSE Err(Error_from_reqwest(body.error))]
    ELSE LET err_res == res_json(res, "DataStoreErrorResponse") IN
         [read |-> TRUE,
          result |-> IF err_res.ok THEN Err(DataStoreError(err_res.value))
                     ELSE Err(Error_from_reqwest(err_res.error))]

\* handle_res_ok decoding the 2xx body like the other operations' handler
handle_res_ok_decoding(res) == handle_res(res, "OrderedEntry")

handle_res_ok(res) ==
    IF is_success(res.status)
    THEN [read |-> FALSE, result |-> Ok(Unit)]
    ELSE LET err_res == res_json(res, "DataStoreErrorResponse") IN
         [read |-> TRUE,
          result |-> IF err_res.ok THEN Err(DataStoreError(err_res.value))
                     ELSE Err(Error_from_reqwest(err_res.error))]

\* `.send().await?` followed by the handler
send_and_handle(net, T) ==
    IF ~net.delivered
    THEN [read |-> FALSE, result |-> Err(Error_from_reqwest([kind |-> "request"]))]
    ELSE IF T = "()" THEN handle_res_ok(net) ELSE handle_res(net, T)

(***************************************************************************)
(* The operations                                                          *)
(***************************************************************************)
\* no exchange is in progress or recorded: the caller holds nothing of the
\* last call but the page token it may thread into the next list call
NoParams == [api_key |-> "key-1"]
NoOutcome == [delivered |-> FALSE]

Init ==
    /\ op = "none"
    /\ params = NoParams
    /\ requests = << >>
    /\ outcome = NoOutcome
    /\ result = Ok(Unit)
    /\ body_read = FALSE
    /\ calls = 0
    /\ nsent = 0
    /\ cursor = None
    /\ prev_cursor = None

\* the caller may start an invocation: it awaits each call before the next
CanInvoke == op = "none" /\ calls < MaxCalls

\* one invocation: the request `req` is sent once, the network does `net`,
\* and the handler for the expected type T produces the returned value
Invoke(name, p, req, net, T) ==
    LET h == send_and_handle(net, T) IN
    /\ op' = name
    /\ params' = p
    /\ requests' = <<req>>
    /\ outcome' = net
    /\ result' = h.result
    /\ body_read' = h.read
    /\ calls' = calls + 1
    /\ nsent' = nsent + 1
    /\ prev_cursor' = cursor
    /\ cursor' = IF name = "list" /\ h.result.ok
                 THEN h.result.value.next_page_token ELSE cursor

list_entries ==
    /\ CanInvoke
    /\ \E p \in OrderedListEntriesParams, net \in Outcomes :
           Invoke("list", p, list_entries_request(p), net,
                  "OrderedListEntriesResponse")

create_entry ==
    /\ CanInvoke
    /\ \E p \in OrderedCreateEntryParams, net \in Outcomes :
           Invoke("create", p, create_entry_request(p), net, "OrderedEntry")

get_entry ==
    /\ CanInvoke
    /\ \E p \in OrderedEntryParams, net \in Outcomes :
           Invoke("get", p, get_entry_request(p), net, "OrderedEntry")

delete_entry ==
    /\ CanInvoke
    /\ \E p \in OrderedEntryParams, net \in Outcomes :
           Invoke("delete", p, delete_entry_request(p), net, "()")

update_entry ==
    /\ CanInvoke
    /\ \E p \in OrderedUpdateEntryParams, net \in Outcomes :
           Invoke("update", p, update_entry_request(p), net, "OrderedEntry")

\* increment_entry carried out as a get followed by an update
increment_entry_get_then_update ==
    /\ CanInvoke
    /\ \E p \in OrderedIncrementEntryParams, net \in Outcomes :
           LET h == send_and_handle(net, "OrderedEntry")
               u == [api_key |-> p.api_key, universe_id |-> p.universe_id,
                     ordered_datastore_name |-> p.ordered_datastore_name,
                     scope |-> p.scope, id |-> p.id,
                     value |-> p.increment, allow_missing |-> None]
           IN
           /\ op' = "increment"
           /\ params' = p
           /\ requests' = <<get_entry_request(p), update_entry_request(u)>>
           /\ outcome' = net
           /\ result' = h.result
           /\ body_read' = h.read
           /\ calls' = calls + 1
           /\ nsent' = nsent + 2
           /\ prev_cursor' = cursor
           /\ cursor' = cursor

increment_entry ==
    /\ CanInvoke
    /\ \E p \in OrderedIncrementEntryParams, net \in Outcomes :
           Invoke("increment", p, increment_entry_request(p), net,
                  "OrderedEntry")

\* the awaited call has returned: its Result is moved to the caller and the
\* layer keeps nothing of it (no cache, no shared state between calls)
caller_takes_result ==
    /\ op # "none"
    /\ op' = "none"
    /\ params' = NoParams
    /\ requests' = << >>
    /\ outcome' = NoOutcome
    /\ result' = Ok(Unit)
    /\ body_read' = FALSE
    /\ prev_cursor' = None
    /\ UNCHANGED <<calls, nsent, cursor>>

Next ==
    \/ caller_takes_result
    \/ list_entries
    \/ create_entry
    \/ get_entry
    \/ delete_entry
    \/ update_entry
    \/ increment_entry

Spec == Init /\ [][Next]_vars

(***************************************************************************)
(* Properties                                                              *)
(***************************************************************************)
\* decimal text of the numbers the callers above supply
Decimal ==
    (7 :> "7") @@ (4096 :> "4096") @@ (25 :> "25")
    @@ (-5 :> "-5") @@ (0 :> "0") @@ (42 :> "42")
    @@ (-2147483647 :> "-2147483647") @@ (2147483647 :> "2147483647")

Success2xx == outcome.status \in 200..299

ExpectedType ==
    CASE op = "list" -> "OrderedListEntriesResponse"
      [] op \in {"create", "get", "update", "increment"} -> "OrderedEntry"

BodyDecodesAs(T) ==
    /\ outcome.body.readable
    /\ outcome.body.json
    /\ Deserialize(T, outcome.body.obj).ok

\* the kind of outcome the last exchange had, read off the network's answer
OutcomeKind ==
    IF ~outcome.delivered THEN "Transport"
    ELSE IF Success2xx
         THEN IF op = "delete" THEN "Success"
              ELSE IF ~outcome.body.readable THEN "Transport"
              ELSE IF BodyDecodesAs(ExpectedType) THEN "Success"
              ELSE "Undecodable"
         ELSE IF ~outcome.body.readable THEN "Transport"
              ELSE IF BodyDecodesAs("DataStoreErrorResponse")
                   THEN "DataStoreError"
              ELSE "Undecodable"

Thm_C2_ServiceErrorCarriesEnvelope ==
    ( /\ op # "none"
      /\ outcome.delivered
      /\ ~Success2xx
      /\ outcome.body.readable
      /\ outcome.body.json
      /\ HasField(outcome.body.obj, "code", "string")
      /\ HasField(outcome.body.obj, "message", "string") )
    => /\ ~result.ok
       /\ result.error.kind = "DataStoreError"
       /\ result.error.envelope.code = outcome.body.obj.code.s
       /\ result.error.envelope.message = outcome.body.obj.message.s

Wit_C2_NotFoundOnGet ==
    /\ op = "get"
    /\ outcome.delivered
    /\ outcome.status = 404
    /\ ~result.ok
    /\ result.error.kind = "DataStoreError"
    /\ result.error.envelope.code = "NOT_FOUND"
    /\ result.error.envelope.message = "Entry not found."

\* C3: every invocation issues exactly one HTTP request whatever its outcome,
\* and increment is one PATCH, never a get followed by an update
Thm_C3_OneRequestPerInvocation ==
    /\ nsent = calls
    /\ op # "none" => Len(requests) = 1
    /\ op = "increment" =>
           \A i \in DOMAIN requests :
               /\ requests[i].method = "PATCH"
               /\ requests[i].url # get_entry_request(params).url

Wit_C3_FailedIncrementAfterACall ==
    /\ op = "increment"
    /\ ~outcome.delivered
    /\ ~result.ok
    /\ calls = 2
    /\ nsent = 2

\* C4: delete_entry returns Ok(()) for every 2xx answer whatever its body,
\* and reads the body only when the status is not 2xx
Thm_C4_DeleteIgnoresBodyOn2xx ==
    (op = "delete" /\ outcome.delivered) =>
        /\ Success2xx => (result.ok /\ result.value = Unit /\ ~body_read)
        /\ body_read => ~Success2xx

Wit_C4_DeleteMalformed2xx ==
    /\ op = "delete"
    /\ outcome.delivered
    /\ outcome.status = 200
    /\ outcome.body = Text("<html>")
    /\ result.ok

PairsNamed(q, n) == {i \in DOMAIN q : q[i][1] = n}

ListOptionals == {"max_page_size", "page_token", "order_by", "filter"}

\* C5: the query holds exactly the optional parameters that are present,
\* each once under its own name with its value stringified, and nothing for
\* an absent one
Thm_C5_QueryHoldsExactlyPresentParams ==
    /\ op = "list" =>
           LET q == requests[1].query IN
           /\ \A n \in ListOptionals :
                  Cardinality(PairsNamed(q, n)) =
                      IF params[n].some THEN 1 ELSE 0
           /\ \A i \in DOMAIN q :
                  /\ q[i][1] \in ListOptionals
                  /\ params[q[i][1]].some
                  /\ q[i][2] = IF q[i][1] = "max_page_size"
                               THEN Decimal[params.max_page_size.v]
                               ELSE params[q[i][1]].v
    /\ op = "update" =>
           LET q == requests[1].query IN
           /\ Len(q) = IF params.allow_missing.some THEN 1 ELSE 0
           /\ \A i \in DOMAIN q :
                  /\ q[i][1] = "allow_missing"
                  /\ params.allow_missing.some
                  /\ params.allow_missing.v = TRUE => q[i][2] = "true"
                  /\ params.allow_missing.v = FALSE => q[i][2] = "false"

Wit_C5_AllowMissingFalse ==
    /\ op = "update"
    /\ params.allow_missing = Some(FALSE)
    /\ requests[1].query = << <<"allow_missing", "false">> >>

ExpectedMethod ==
    CASE op \in {"list", "get"} -> "GET"
      [] op = "create" -> "POST"
      [] op \in {"update", "increment"} -> "PATCH"
      [] op = "delete" -> "DELETE"

ExpectedSuffix ==
    CASE op \in {"list", "create"} -> "/entries"
      [] op \in {"get", "update", "delete"} -> "/entries/" \o params.id
      [] op = "increment" -> "/entries/" \o params.id \o ":increment"

\* C6: each operation sends its method to
\* .../universes/{universe_id}/orderedDataStores/scopes/{scope}{suffix},
\* with "global" for an absent scope and scope and id unchanged
Thm_C6_MethodAndUrl ==
    op # "none" =>
        /\ requests[1].method = ExpectedMethod
        /\ requests[1].url =
               "https://apis.roblox.com/ordered-data-stores/v1/universes/"
               \o Decimal[params.universe_id]
               \o "/orderedDataStores/scopes/"
               \o (IF params.scope = None THEN "global" ELSE params.scope.v)
               \o ExpectedSuffix

Wit_C6_IncrementGlobalScope ==
    /\ op = "increment"
    /\ params.scope = None
    /\ requests[1].method = "PATCH"
    /\ requests[1].url =
           "https://apis.roblox.com/ordered-data-stores/v1/universes/4096/orderedDataStores/scopes/global/entries/u1:increment"

\* C7: create and update send the body {"value": v}, increment sends
\* {"amount": v}, with v the caller's signed value; create also sends the
\* query pair id; list, get and delete send no body
Thm_C7_RequestBodies ==
    /\ op \in {"create", "update"} =>
           requests[1].body =
               Some("{\"value\":" \o Decimal[params.value] \o "}")
    /\ op = "increment" =>
           requests[1].body =
               Some("{\"amount\":" \o Decimal[params.increment] \o "}")
    /\ op = "create" => requests[1].query = << <<"id", params.id>> >>
    /\ op \in {"list", "get", "delete"} => requests[1].body = None

Wit_C7_NegativeIncrement ==
    /\ op = "increment"
    /\ params.increment = -5
    /\ requests[1].body = Some("{\"amount\":-5}")

\* C8: every request that carries a body (create, update, increment) declares
\* a JSON content type besides the x-api-key header
Cex_C8_JsonContentType ==
    (op \in {"create", "update", "increment"} /\ requests[1].body.some) =>
        /\ \E i \in DOMAIN requests[1].headers :
               requests[1].headers[i] = <<"x-api-key", params.api_key>>
        /\ \E i \in DOMAIN requests[1].headers :
               /\ requests[1].headers[i][1] = "content-type"
               /\ requests[1].headers[i][2] = "application/json"

\* C9: a 2xx list answer without a next-page token decodes to a page whose
\* next_page_token is None, and a list call given the token of the previous
\* page sends the pair page_token = that token, unchanged
Thm_C9_CursorThreading ==
    /\ ( /\ op = "list"
         /\ result.ok
         /\ "nextPageToken" \notin DOMAIN outcome.body.obj )
       => result.value.next_page_token = None
    /\ ( /\ op = "list"
         /\ prev_cursor # None
         /\ params.page_token = prev_cursor )
       => \E i \in DOMAIN requests[1].query :
              requests[1].query[i] = <<"page_token", prev_cursor.v>>

Wit_C9_FollowUpWithToken ==
    /\ op = "list"
    /\ prev_cursor = Some("c2Vjb25k/+")
    /\ params.page_token = prev_cursor
    /\ result.ok
    /\ result.value.next_page_token = None
    /\ "nextPageToken" \notin DOMAIN outcome.body.obj

RequestOf(name, p) ==
    CASE name = "list" -> list_entries_request(p)
      [] name = "create" -> create_entry_request(p)
      [] name = "get" -> get_entry_request(p)
      [] name = "delete" -> delete_entry_request(p)
      [] name = "update" -> update_entry_request(p)
      [] name = "increment" -> increment_entry_request(p)

\* C10: the request does not depend on ordered_datastore_name: the same
\* operation on a parameter record that differs only in that field issues
\* the request that was issued
Thm_C10_StoreNameNotSent ==
    op # "none" =>
        \A n \in Names :
            requests =
                <<RequestOf(op, [params EXCEPT !.ordered_datastore_name = n])>>

Wit_C10_OtherStoreSameUrl ==
    /\ op = "list"
    /\ params.ordered_datastore_name = "Kills"
    /\ requests[1].url = list_entries_request(
           [params EXCEPT !.ordered_datastore_name = "Scores"]).url

====
